---- MODULE Spec2Model ----
(***************************************************************************)
(* Social Creator Platform API (src/main.py, src/schemas.py).              *)
(*                                                                         *)
(* Every HTTP handler is one action.  A handler validates its body against *)
(* the schema of src/schemas.py, then makes one call of the document-store *)
(* accessor (create_document / get_documents of database.py).  The state   *)
(* is the store handle, the collections of the store, the identifier       *)
(* generator of the store and the response of the last request.            *)
(*                                                                         *)
(* Strings that are searched (Post.text, Post.tags, the search query) are  *)
(* sequences of one-character strings; an Optional value is a sequence of  *)
(* length 0 (None) or 1 (the value).                                       *)
(***************************************************************************)
EXTENDS Integers, Sequences, FiniteSets, TLC

VARIABLES
    db,       \* database.db: whether the handle is set, and what the store behind it does
    store,    \* collection name -> sequence of documents, in insertion order
    nextId,   \* the store's identifier generator
    resp,     \* the response of the request handled last
    pc,       \* concurrent create requests: position of each request
    batch,    \* concurrent create requests: the bodies sent
    ret       \* concurrent create requests: identifier returned (0: none yet)

vars == <<db, store, nextId, resp, pc, batch, ret>>

-----------------------------------------------------------------------------
(* Bounds of the model *)

MaxCreates == 2

NConc == 2

-----------------------------------------------------------------------------
(* Fixed caps of the list endpoints *)

UsersLimit == 50

PostsLimit == 100

MessagesLimit == 200

NotificationsLimit == 100

SearchLimit == 50

RecommendationsLimit == 20

TestCollectionsLimit == 20

-----------------------------------------------------------------------------
(* Optional values and strings *)

None == << >>

Some(x) == << x >>

\* Python truthiness of an Optional[str] query parameter given as a TLA+
\* string: None and "" are falsy.
Truthy(o) == o # None /\ o[1] # ""

\* Python truthiness of an Optional[str] whose string is a character sequence.
TruthySeq(o) == o # None /\ o[1] # << >>

Min(a, b) == IF a < b THEN a ELSE b

\* str.lower() on the characters the model uses
Lower(c) == CASE c = "A" -> "a" [] c = "B" -> "b" [] OTHER -> c

-----------------------------------------------------------------------------
(* Schemas (src/schemas.py) *)

PrivacyLevels == {"public", "followers", "subscribers", "private"}

ContentTypes == {"text", "image", "short_video", "live_stream", "audio"}

PlanTiers == {"bronze", "silver", "gold", "platinum"}

SubscriptionStatuses == {"active", "canceled", "past_due"}

PaymentPurposes == {"subscription", "tip", "purchase"}

PaymentProviders == {"stripe", "paypal", "mock"}

PaymentStatuses == {"initiated", "succeeded", "failed"}

NotificationTypes == {"like", "comment", "message", "subscription", "system"}

StreamStatuses == {"scheduled", "live", "ended"}

StreamAccess == {"public", "subscribers", "pay_per_view"}

ValidUser(r) == TRUE

\* Faulty variant: a Post body is taken without its enumerations being checked.
ValidPost_Unchecked(r) == TRUE

ValidPost(r) ==
    /\ r.content_type \in ContentTypes
    /\ (r.visibility = None \/ r.visibility[1] \in PrivacyLevels)

ValidComment(r) == TRUE

ValidLike(r) == TRUE

ValidMessage(r) == TRUE

ValidSubscriptionPlan(r) == r.price_cents >= 0 /\ r.tier \in PlanTiers

ValidSubscription(r) == r.status \in SubscriptionStatuses

ValidPayment(r) ==
    /\ r.purpose \in PaymentPurposes
    /\ r.provider \in PaymentProviders
    /\ r.status \in PaymentStatuses

ValidNotification(r) == r.type \in NotificationTypes

ValidStream(r) == r.status \in StreamStatuses /\ r.access \in StreamAccess

ValidAudioRoom(r) == r.status \in StreamStatuses

ValidAnalyticsEvent(r) == TRUE

\* The typed record pydantic builds from a valid Post body: an absent
\* visibility takes the default "public".
ParsePost(r) ==
    [author_id |-> r.author_id, content_type |-> r.content_type,
     text |-> r.text, tags |-> r.tags,
     visibility |-> IF r.visibility = None THEN "public" ELSE r.visibility[1]]

\* FastAPI validates the body against the handler's parameter type before the
\* handler body runs.
Validates(op, r) ==
    CASE op = "create_user" -> ValidUser(r)
      [] op = "create_post" -> ValidPost(r)
      [] op = "add_comment" -> ValidComment(r)
      [] op = "add_like" -> ValidLike(r)
      [] op = "send_message" -> ValidMessage(r)
      [] op = "create_plan" -> ValidSubscriptionPlan(r)
      [] op = "create_subscription" -> ValidSubscription(r)
      [] op = "create_payment" -> ValidPayment(r)
      [] op = "create_notification" -> ValidNotification(r)
      [] op = "create_stream" -> ValidStream(r)
      [] op = "create_audio_room" -> ValidAudioRoom(r)
      [] op = "track" -> ValidAnalyticsEvent(r)

\* The typed record the handler receives
Parse(op, r) == IF op = "create_post" THEN ParsePost(r) ELSE r

-----------------------------------------------------------------------------
(* Request bodies and query parameters the model sends *)

UserBodies == {[username |-> "u1", email |-> "u1@x"]}

PostA ==
    [author_id |-> "u1", content_type |-> "text", text |-> Some(<<"A", "b">>),
     tags |-> << <<"a">> >>, visibility |-> None]

PostB ==
    [author_id |-> "u2", content_type |-> "image", text |-> None,
     tags |-> << <<"b">> >>, visibility |-> Some("private")]

PostC ==
    [author_id |-> "u1", content_type |-> "text", text |-> Some(<<"a">>),
     tags |-> << >>, visibility |-> Some("subscribers")]

PostD ==
    [author_id |-> "u2", content_type |-> "audio", text |-> Some(<<"b", ".">>),
     tags |-> << <<"a">>, <<"b">> >>, visibility |-> Some("followers")]

PostBadType == [PostA EXCEPT !.content_type = "bogus"]

PostBadVisibility == [PostA EXCEPT !.visibility = Some("bogus")]

PostBodies == {PostA, PostB, PostC, PostD, PostBadType, PostBadVisibility}

CommentBodies == {[post_id |-> "p1", author_id |-> "u1", text |-> "hi"]}

LikeBodies == {[post_id |-> "p1", user_id |-> "u1"]}

MessageBodies ==
    {[sender_id |-> "u1", recipient_id |-> "u2", body |-> "m"],
     [sender_id |-> "u3", recipient_id |-> "u1", body |-> "m"]}

PlanBodies ==
    {[creator_id |-> "u1", title |-> "t", price_cents |-> 500, tier |-> "gold"],
     [creator_id |-> "u1", title |-> "t", price_cents |-> 0 - 1, tier |-> "gold"],
     [creator_id |-> "u1", title |-> "t", price_cents |-> 500, tier |-> "bogus"]}

SubscriptionBodies ==
    {[creator_id |-> "u1", subscriber_id |-> "u2", plan_id |-> "pl", status |-> s] :
        s \in {"active", "bogus"}}

PaymentBodies ==
    {[user_id |-> "u1", amount_cents |-> 500, purpose |-> "tip",
      provider |-> pr, status |-> "initiated"] : pr \in {"mock", "bogus"}}

NotificationBodies ==
    {[user_id |-> u, type |-> t, title |-> "n", read |-> FALSE] :
        u \in {"u1"}, t \in {"like", "bogus"}}

StreamBodies ==
    {[creator_id |-> "u1", title |-> "s", status |-> "scheduled", access |-> a] :
        a \in {"public", "bogus"}}

AudioRoomBodies ==
    {[host_id |-> "u1", topic |-> "t", status |-> s] : s \in {"live", "bogus"}}

AnalyticsBodies == {[user_id |-> Some("u1"), event_name |-> "view"]}

\* tag= and the search query: character sequences
TagParams == {None, Some(<< >>), Some(<<"a">>)}

AuthorParams == {None, Some(""), Some("u1")}

WithUserParams == {None, Some(""), Some("u1"), Some("u2")}

SearchQueries == {<< >>, <<"a">>, <<"A", "B">>, <<".">>, <<"B">>}

-----------------------------------------------------------------------------
(* The document store *)

Collections ==
    {"user", "post", "comment", "like", "message", "subscriptionplan",
     "subscription", "payment", "notification", "stream", "audioroom",
     "analyticsevent"}

\* Fields holding an array: a condition on them tests the elements.
ArrayFields == {"tags"}

\* A regular expression of literal characters and the wildcard ".", matched
\* at offset k of text t.
RegexAt(p, t, k, ignorecase) ==
    /\ k + Len(p) <= Len(t)
    /\ \A i \in 1..Len(p) :
          \/ p[i] = "."
          \/ IF ignorecase THEN Lower(p[i]) = Lower(t[k + i]) ELSE p[i] = t[k + i]

RegexSearch(p, t, ignorecase) == \E k \in 0..Len(t) : RegexAt(p, t, k, ignorecase)

\* One field condition of a filter document: equality, $in, $regex
MatchesCond(data, c) ==
    CASE c.test = "eq" -> data[c.field] = c.value
      [] c.test = "in" ->
            IF c.field \in ArrayFields
            THEN \E i \in 1..Len(data[c.field]) : \E j \in 1..Len(c.value) :
                    data[c.field][i] = c.value[j]
            ELSE \E j \in 1..Len(c.value) : data[c.field] = c.value[j]
      [] c.test = "regex" ->
            /\ data[c.field] # None
            /\ RegexSearch(c.value, data[c.field][1], c.ignorecase)

\* A filter document: the conjunction of its field conditions
MatchesDict(data, conds) == \A i \in 1..Len(conds) : MatchesCond(data, conds[i])

\* A filter: a plain document, or {"$or": [document, ...]}
Matches(data, q) ==
    IF q.kind = "or"
    THEN \E i \in 1..Len(q.alts) : MatchesDict(data, q.alts[i])
    ELSE MatchesDict(data, q.conds)

Dict(conds) == [kind |-> "dict", conds |-> conds, alts |-> << >>]

Or(alts) == [kind |-> "or", conds |-> << >>, alts |-> alts]

Eq(f, v) == [field |-> f, test |-> "eq", value |-> v, ignorecase |-> FALSE]

In(f, vs) == [field |-> f, test |-> "in", value |-> vs, ignorecase |-> FALSE]

Regex(f, p, i) == [field |-> f, test |-> "regex", value |-> p, ignorecase |-> i]

Take(s, n) == SubSeq(s, 1, Min(n, Len(s)))

\* find-many: up to limit matching documents, in store order
GetDocuments(coll, q, limit) ==
    Take(SelectSeq(store[coll], LAMBDA d : Matches(d.data, q)), limit)

\* insert-one: the collection with the record appended under a new identifier
InsertOne(coll, data) == [store EXCEPT ![coll] = Append(@, [id |-> nextId, data |-> data])]

\* The accessor raises when the handle is None or the store cannot be reached.
StoreUsable == db.present /\ db.reachable

\* Collections hold a document as soon as one is inserted; the database may
\* hold collections of other applications.
CollectionOrder ==
    <<"user", "post", "comment", "like", "message", "subscriptionplan",
      "subscription", "payment", "notification", "stream", "audioroom",
      "analyticsevent">>

ForeignNames ==
    <<"x01", "x02", "x03", "x04", "x05", "x06", "x07", "x08", "x09", "x10",
      "x11", "x12", "x13", "x14", "x15", "x16", "x17", "x18", "x19", "x20">>

ListCollectionNames ==
    SelectSeq(CollectionOrder, LAMBDA c : store[c] # << >>)
        \o SubSeq(ForeignNames, 1, db.foreign)

-----------------------------------------------------------------------------
(* Responses *)

NoArgs == [none |-> TRUE]

NoInfo == [none |-> TRUE]

Response(op, req, status, id, body, info) ==
    [op |-> op, req |-> req, status |-> status, id |-> id, body |-> body,
     info |-> info]

CreateOps ==
    {"create_user", "create_post", "add_comment", "add_like", "send_message",
     "create_plan", "create_subscription", "create_payment",
     "create_notification", "create_stream", "create_audio_room", "track"}

ListOps ==
    {"list_users", "list_posts", "get_messages", "list_notifications",
     "search", "recommendations"}

ReadOps == ListOps \cup {"root", "test_database"}

\* Faulty variant: create_plan names the collection of another entity.
CollectionOf_PlanMisnamed(op) ==
    CASE op = "create_user" -> "user"
      [] op = "create_post" -> "post"
      [] op = "add_comment" -> "comment"
      [] op = "add_like" -> "like"
      [] op = "send_message" -> "message"
      [] op = "create_plan" -> "subscription"
      [] op = "create_subscription" -> "subscription"
      [] op = "create_payment" -> "payment"
      [] op = "create_notification" -> "notification"
      [] op = "create_stream" -> "stream"
      [] op = "create_audio_room" -> "audioroom"
      [] op = "track" -> "analyticsevent"

\* The collection each create handler names
CollectionOf(op) ==
    CASE op = "create_user" -> "user"
      [] op = "create_post" -> "post"
      [] op = "add_comment" -> "comment"
      [] op = "add_like" -> "like"
      [] op = "send_message" -> "message"
      [] op = "create_plan" -> "subscriptionplan"
      [] op = "create_subscription" -> "subscription"
      [] op = "create_payment" -> "payment"
      [] op = "create_notification" -> "notification"
      [] op = "create_stream" -> "stream"
      [] op = "create_audio_room" -> "audioroom"
      [] op = "track" -> "analyticsevent"

-----------------------------------------------------------------------------
(* Filters built by the handlers (src/main.py) *)

UsersQuery == Dict(<< >>)

\* Faulty variant: the author_id filter is left out of the query.
PostsQuery_TagOnly(tag, author_id) ==
    Dict(IF TruthySeq(tag) THEN << In("tags", << tag[1] >>) >> ELSE << >>)

PostsQuery(tag, author_id) ==
    Dict((IF TruthySeq(tag) THEN << In("tags", << tag[1] >>) >> ELSE << >>)
         \o (IF Truthy(author_id) THEN << Eq("author_id", author_id[1]) >> ELSE << >>))

\* Faulty variant: the pair is matched in one direction only.
MessagesQuery_OneDirection(user_id, with_user) ==
    IF Truthy(with_user)
    THEN Or(<< << Eq("sender_id", user_id), Eq("recipient_id", with_user[1]) >> >>)
    ELSE Or(<< << Eq("sender_id", user_id) >>, << Eq("recipient_id", user_id) >> >>)

MessagesQuery(user_id, with_user) ==
    IF Truthy(with_user)
    THEN Or(<< << Eq("sender_id", user_id), Eq("recipient_id", with_user[1]) >>,
               << Eq("sender_id", with_user[1]), Eq("recipient_id", user_id) >> >>)
    ELSE Or(<< << Eq("sender_id", user_id) >>, << Eq("recipient_id", user_id) >> >>)

NotificationsQuery(user_id) == Dict(<< Eq("user_id", user_id) >>)

SearchFilter(q) == Or(<< << Regex("text", q, TRUE) >>, << In("tags", << q >>) >> >>)

\* Faulty variant: the visibility filter is left out.
RecommendationsQuery_AllPosts == Dict(<< >>)

RecommendationsQuery == Dict(<< In("visibility", <<"public", "followers">>) >>)

-----------------------------------------------------------------------------
(* Handlers *)

\* A create handler: validation, then one insert, then {"id": new_id}
CreateHandler(op, body) ==
    LET coll == CollectionOf(op) IN
    /\ IF ~Validates(op, body)
       THEN /\ resp' = Response(op, body, 422, 0, << >>, NoInfo)
            /\ UNCHANGED <<store, nextId>>
       ELSE IF ~StoreUsable
       THEN /\ resp' = Response(op, body, 500, 0, << >>, NoInfo)
            /\ UNCHANGED <<store, nextId>>
       ELSE /\ nextId <= MaxCreates
            /\ store' = InsertOne(coll, Parse(op, body))
            /\ nextId' = nextId + 1
            /\ resp' = Response(op, body, 200, nextId, << >>, NoInfo)
    /\ UNCHANGED <<db, pc, batch, ret>>

\* A list handler: one find-many with the handler's filter and cap
ListHandler(op, req, coll, q, limit) ==
    /\ resp' = IF StoreUsable
               THEN Response(op, req, 200, 0, GetDocuments(coll, q, limit), NoInfo)
               ELSE Response(op, req, 500, 0, << >>, NoInfo)
    /\ UNCHANGED <<db, store, nextId, pc, batch, ret>>

root ==
    /\ resp' = Response("root", NoArgs, 200, 0, << >>,
                        [service |-> "creator-platform", status |-> "ok"])
    /\ UNCHANGED <<db, store, nextId, pc, batch, ret>>

\* The body /test returns; db.list_collection_names() raises when the store
\* cannot be reached.
TestResponse ==
    IF ~db.present
    THEN [backend |-> "Running", database |-> "Not Available",
          database_url |-> "Not Set", database_name |-> "Not Set",
          connection_status |-> "Not Connected", collections |-> << >>]
    ELSE IF db.reachable
    THEN [backend |-> "Running", database |-> "Connected & Working",
          database_url |-> "Set", database_name |-> db.name,
          connection_status |-> "Connected",
          collections |-> Take(ListCollectionNames, TestCollectionsLimit)]
    ELSE [backend |-> "Running", database |-> "Connected but Error",
          database_url |-> "Set", database_name |-> db.name,
          connection_status |-> "Connected", collections |-> << >>]

\* Faulty variant: the error of list_collection_names() is not caught.
test_database_Uncaught ==
    /\ resp' = Response("test_database", NoArgs,
                        IF db.present /\ ~db.reachable THEN 500 ELSE 200, 0, << >>,
                        TestResponse)
    /\ UNCHANGED <<db, store, nextId, pc, batch, ret>>

test_database ==
    /\ resp' = Response("test_database", NoArgs, 200, 0, << >>, TestResponse)
    /\ UNCHANGED <<db, store, nextId, pc, batch, ret>>

create_user == \E b \in UserBodies : CreateHandler("create_user", b)

\* Faulty variant: the list reads another collection than the create writes.
list_users_OtherCollection ==
    ListHandler("list_users", NoArgs, "like", UsersQuery, UsersLimit)

list_users == ListHandler("list_users", NoArgs, "user", UsersQuery, UsersLimit)

create_post == \E b \in PostBodies : CreateHandler("create_post", b)

\* Faulty variant: the cap of the list is ten times the documented one.
list_posts_WideCap ==
    \E tag \in TagParams, author_id \in AuthorParams :
        ListHandler("list_posts", [tag |-> tag, author_id |-> author_id], "post",
                    PostsQuery(tag, author_id), PostsLimit * 10)

list_posts ==
    \E tag \in TagParams, author_id \in AuthorParams :
        ListHandler("list_posts", [tag |-> tag, author_id |-> author_id], "post",
                    PostsQuery(tag, author_id), PostsLimit)

add_comment == \E b \in CommentBodies : CreateHandler("add_comment", b)

add_like == \E b \in LikeBodies : CreateHandler("add_like", b)

send_message == \E b \in MessageBodies : CreateHandler("send_message", b)

get_messages ==
    \E user_id \in {"u1", "u2"}, with_user \in WithUserParams :
        ListHandler("get_messages", [user_id |-> user_id, with_user |-> with_user],
                    "message", MessagesQuery(user_id, with_user), MessagesLimit)

create_plan == \E b \in PlanBodies : CreateHandler("create_plan", b)

create_subscription == \E b \in SubscriptionBodies : CreateHandler("create_subscription", b)

create_payment == \E b \in PaymentBodies : CreateHandler("create_payment", b)

create_notification == \E b \in NotificationBodies : CreateHandler("create_notification", b)

list_notifications ==
    \E user_id \in {"u1", "u3"} :
        ListHandler("list_notifications", [user_id |-> user_id], "notification",
                    NotificationsQuery(user_id), NotificationsLimit)

create_stream == \E b \in StreamBodies : CreateHandler("create_stream", b)

create_audio_room == \E b \in AudioRoomBodies : CreateHandler("create_audio_room", b)

search ==
    \E q \in SearchQueries :
        ListHandler("search", [q |-> q], "post", SearchFilter(q), SearchLimit)

recommendations ==
    \E user_id \in {None, Some("u1")} :
        ListHandler("recommendations", [user_id |-> user_id], "post",
                    RecommendationsQuery, RecommendationsLimit)

track == \E b \in AnalyticsBodies : CreateHandler("track", b)

-----------------------------------------------------------------------------
(* Initial states: a store that earlier requests have filled *)

\* Documents stored before the run carry identifiers below every identifier
\* the run generates.
Prefilled(coll, data, n) ==
    [i \in 1..n |-> [id |-> 0 - ((n - i) * 12 + CHOOSE k \in 1..12 : CollectionOrder[k] = coll),
                     data |-> data]]

MessageA == [sender_id |-> "u1", recipient_id |-> "u2", body |-> "m"]

NotificationA == [user_id |-> "u1", type |-> "like", title |-> "n", read |-> FALSE]

UserA == [username |-> "u1", email |-> "u1@x"]

EmptyStore == [c \in Collections |-> << >>]

\* Every listed collection one document short of its cap
NearCapStore ==
    [c \in Collections |->
        CASE c = "user" -> Prefilled(c, UserA, UsersLimit - 1)
          [] c = "post" -> Prefilled(c, ParsePost(PostA), PostsLimit - 1)
          [] c = "message" -> Prefilled(c, MessageA, MessagesLimit - 1)
          [] c = "notification" -> Prefilled(c, NotificationA, NotificationsLimit - 1)
          [] OTHER -> << >>]

\* database.db is None when the environment names no database.
NoHandle == [present |-> FALSE, reachable |-> FALSE, name |-> "", foreign |-> 0]

\* A handle on a database that holds n collections of other applications
Handle(reachable, n) ==
    [present |-> TRUE, reachable |-> reachable, name |-> "appdb", foreign |-> n]

Handles == {NoHandle, Handle(FALSE, 0), Handle(TRUE, Len(ForeignNames) - 1)}

Init ==
    /\ db \in Handles
    /\ store = EmptyStore
    /\ nextId = 1
    /\ resp = Response("root", NoArgs, 200, 0, << >>,
                       [service |-> "creator-platform", status |-> "ok"])
    /\ pc = << >>
    /\ batch = << >>
    /\ ret = << >>

Next ==
    \/ root
    \/ test_database
    \/ create_user
    \/ list_users
    \/ create_post
    \/ list_posts
    \/ add_comment
    \/ add_like
    \/ send_message
    \/ get_messages
    \/ create_plan
    \/ create_subscription
    \/ create_payment
    \/ create_notification
    \/ list_notifications
    \/ create_stream
    \/ create_audio_room
    \/ search
    \/ recommendations
    \/ track

Spec == Init /\ [][Next]_vars

-----------------------------------------------------------------------------
(* The listed collections, empty or each one document short of its cap *)

InitCaps ==
    /\ db = Handle(TRUE, 0)
    /\ store \in {EmptyStore, NearCapStore}
    /\ nextId = 1
    /\ resp = Response("root", NoArgs, 200, 0, << >>,
                       [service |-> "creator-platform", status |-> "ok"])
    /\ pc = << >>
    /\ batch = << >>
    /\ ret = << >>

NextCaps ==
    \/ create_user
    \/ list_users
    \/ create_post
    \/ list_posts
    \/ send_message
    \/ get_messages
    \/ create_notification
    \/ list_notifications
    \/ search
    \/ recommendations

SpecCaps == InitCaps /\ [][NextCaps]_vars

-----------------------------------------------------------------------------
(* Concurrent create requests.  The handlers share nothing but the store; *)
(* a request is validated by the framework, then its handler makes one    *)
(* insert call, and the store serializes the inserts of all requests.     *)

Requests == 1..NConc

ConcRequests ==
    {[op |-> "create_post", body |-> PostA],
     [op |-> "create_post", body |-> PostB],
     [op |-> "create_post", body |-> PostBadType],
     [op |-> "send_message", body |-> MessageA],
     [op |-> "send_message", body |-> [sender_id |-> "u3", recipient_id |-> "u1", body |-> "m"]]}

Served == \A i \in Requests : pc[i] \in {"rejected", "failed", "done"}

ConcValidate(i) ==
    /\ pc[i] = "received"
    /\ IF Validates(batch[i].op, batch[i].body)
       THEN /\ pc' = [pc EXCEPT ![i] = "validated"]
            /\ UNCHANGED resp
       ELSE /\ pc' = [pc EXCEPT ![i] = "rejected"]
            /\ resp' = Response(batch[i].op, batch[i].body, 422, 0, << >>, NoInfo)
    /\ UNCHANGED <<db, store, nextId, batch, ret>>

\* Faulty variant: the handler repeats its insert, as a retry would.
ConcInsert_Twice(i) ==
    LET coll == CollectionOf(batch[i].op)
        data == Parse(batch[i].op, batch[i].body)
    IN
    /\ pc[i] = "validated"
    /\ StoreUsable
    /\ store' = [store EXCEPT ![coll] =
                    Append(Append(@, [id |-> nextId, data |-> data]),
                           [id |-> nextId + 1, data |-> data])]
    /\ nextId' = nextId + 2
    /\ ret' = [ret EXCEPT ![i] = nextId + 1]
    /\ pc' = [pc EXCEPT ![i] = "done"]
    /\ resp' = Response(batch[i].op, batch[i].body, 200, nextId + 1, << >>, NoInfo)
    /\ UNCHANGED <<db, batch>>

ConcInsert(i) ==
    LET coll == CollectionOf(batch[i].op) IN
    /\ pc[i] = "validated"
    /\ IF ~StoreUsable
       THEN /\ pc' = [pc EXCEPT ![i] = "failed"]
            /\ resp' = Response(batch[i].op, batch[i].body, 500, 0, << >>, NoInfo)
            /\ UNCHANGED <<store, nextId, ret>>
       ELSE /\ store' = InsertOne(coll, Parse(batch[i].op, batch[i].body))
            /\ nextId' = nextId + 1
            /\ ret' = [ret EXCEPT ![i] = nextId]
            /\ pc' = [pc EXCEPT ![i] = "done"]
            /\ resp' = Response(batch[i].op, batch[i].body, 200, nextId, << >>, NoInfo)
    /\ UNCHANGED <<db, batch>>

InitConc ==
    /\ db \in {Handle(TRUE, 0), Handle(FALSE, 0)}
    /\ store \in {EmptyStore, NearCapStore}
    /\ nextId = 1
    /\ resp = Response("root", NoArgs, 200, 0, << >>,
                       [service |-> "creator-platform", status |-> "ok"])
    /\ batch \in [Requests -> ConcRequests]
    /\ pc = [i \in Requests |-> "received"]
    /\ ret = [i \in Requests |-> 0]

NextConc ==
    \/ \E i \in Requests : ConcValidate(i)
    \/ \E i \in Requests : ConcInsert(i)
    \/ Served /\ list_posts
    \/ Served /\ get_messages

SpecConc == InitConc /\ [][NextConc]_vars

-----------------------------------------------------------------------------
(* What the claims say, stated on the responses and the store *)

InBody(r, id, data) ==
    \E k \in 1..Len(r.body) : r.body[k].id = id /\ r.body[k].data = data

Stored(c, d) == \E k \in 1..Len(store[c]) : store[c][k] = d

ListedCollection(op) ==
    CASE op = "list_users" -> "user"
      [] op \in {"list_posts", "search", "recommendations"} -> "post"
      [] op = "get_messages" -> "message"
      [] op = "list_notifications" -> "notification"

ClaimedCap(op) ==
    CASE op = "list_users" -> 50
      [] op = "list_posts" -> 100
      [] op = "get_messages" -> 200
      [] op = "list_notifications" -> 100
      [] op = "search" -> 50
      [] op = "recommendations" -> 20

HasTag(data, x) == \E i \in 1..Len(data.tags) : data.tags[i] = x

\* q occurs in t, letter case ignored
OccursIn(q, t) ==
    \E k \in 0..Len(t) :
        /\ k + Len(q) <= Len(t)
        /\ \A i \in 1..Len(q) : Lower(q[i]) = Lower(t[k + i])

\* A successful create of a user or a post, then an unfiltered list of the
\* same collection
CreatedThenListed ==
    /\ resp.status = 200
    /\ resp'.status = 200
    /\ \/ resp.op = "create_user" /\ resp'.op = "list_users"
       \/ /\ resp.op = "create_post"
          /\ resp'.op = "list_posts"
          /\ resp'.req.tag = None
          /\ resp'.req.author_id = None

CreatedDocument ==
    IF resp.op = "create_post" THEN ParsePost(resp.req) ELSE resp.req

\* C1 as stated: after a create succeeds, the created document appears in a
\* subsequent unfiltered list of its collection, whatever the collection holds.
C1_RoundTripAnySize ==
    [][CreatedThenListed => InBody(resp', resp.id, CreatedDocument)]_vars

\* C1 amended: after a create succeeds, the created document appears in a
\* subsequent unfiltered list of its collection when the collection holds no
\* more documents than the cap of the list (50 users, 100 posts).
C1_RoundTripWithinCap ==
    [][(/\ CreatedThenListed
        /\ Len(store'[ListedCollection(resp'.op)]) <= ClaimedCap(resp'.op))
       => InBody(resp', resp.id, CreatedDocument)]_vars

C1_Witness ==
    /\ resp.op = "list_posts"
    /\ resp.status = 200
    /\ resp.req.tag = None
    /\ resp.req.author_id = None
    /\ Len(store["post"]) = 100
    /\ nextId > 1
    /\ \E k \in 1..Len(resp.body) : resp.body[k].id = nextId - 1

\* A create body carrying a value outside its enumeration
InvalidEnumerated(op, r) ==
    CASE op = "create_post" ->
            \/ r.content_type \notin {"text", "image", "short_video", "live_stream", "audio"}
            \/ (r.visibility # None /\
                r.visibility[1] \notin {"public", "followers", "subscribers", "private"})
      [] op = "create_notification" ->
            r.type \notin {"like", "comment", "message", "subscription", "system"}
      [] op = "create_payment" ->
            \/ r.provider \notin {"stripe", "paypal", "mock"}
            \/ r.purpose \notin {"subscription", "tip", "purchase"}
            \/ r.status \notin {"initiated", "succeeded", "failed"}
      [] op = "create_stream" ->
            \/ r.access \notin {"public", "subscribers", "pay_per_view"}
            \/ r.status \notin {"scheduled", "live", "ended"}
      [] op = "create_plan" -> r.tier \notin {"bronze", "silver", "gold", "platinum"}
      [] op = "create_subscription" -> r.status \notin {"active", "canceled", "past_due"}
      [] op = "create_audio_room" -> r.status \notin {"scheduled", "live", "ended"}
      [] OTHER -> FALSE

\* C2: a create request whose body carries an invalid enumerated value is
\* answered with a validation error and every collection is left unchanged.
C2_InvalidEnumRejectedBeforeWrite ==
    [][(resp'.op \in CreateOps /\ InvalidEnumerated(resp'.op, resp'.req))
       => (resp'.status = 422 /\ store' = store /\ nextId' = nextId)]_vars

C2_Witness ==
    /\ resp.op = "create_post"
    /\ resp.req.content_type = "bogus"
    /\ resp.status = 422
    /\ store["post"] # << >>
    /\ db.reachable

\* The posts a supplied tag and author_id ask for; supplied: not None
PostWantedSupplied(req, data) ==
    /\ req.tag # None => HasTag(data, req.tag[1])
    /\ req.author_id # None => data.author_id = req.author_id[1]

\* The posts a non-empty tag and a non-empty author_id ask for
PostWanted(req, data) ==
    /\ (req.tag # None /\ req.tag[1] # << >>) => HasTag(data, req.tag[1])
    /\ (req.author_id # None /\ req.author_id[1] # "") => data.author_id = req.author_id[1]

\* C3 as stated: GET /posts returns only posts that satisfy every supplied
\* filter (tag membership, author_id equality).
C3_OnlySuppliedFilters ==
    (resp.op = "list_posts" /\ resp.status = 200)
    => \A k \in 1..Len(resp.body) : PostWantedSupplied(resp.req, resp.body[k].data)

\* C3 amended: GET /posts returns stored posts only, each satisfying every
\* non-empty filter supplied (an empty tag or author_id is ignored), and, up
\* to the cap, every stored post that satisfies them.
C3_NonEmptyFilters ==
    (resp.op = "list_posts" /\ resp.status = 200)
    => /\ \A k \in 1..Len(resp.body) :
             /\ PostWanted(resp.req, resp.body[k].data)
             /\ Stored("post", resp.body[k])
       /\ Len(store["post"]) <= 100 =>
             \A k \in 1..Len(store["post"]) :
                PostWanted(resp.req, store["post"][k].data)
                => InBody(resp, store["post"][k].id, store["post"][k].data)

C3_Witness ==
    /\ resp.op = "list_posts"
    /\ resp.status = 200
    /\ resp.req.tag = Some(<<"a">>)
    /\ resp.req.author_id = Some("u1")
    /\ Len(resp.body) = 1
    /\ Len(store["post"]) = 2
    /\ HasTag(store["post"][1].data, <<"a">>)
    /\ HasTag(store["post"][2].data, <<"a">>)

Between(data, a, b) ==
    \/ data.sender_id = a /\ data.recipient_id = b
    \/ data.sender_id = b /\ data.recipient_id = a

Involves(data, a) == data.sender_id = a \/ data.recipient_id = a

\* The messages a request asks for when every supplied with_user counts
MessageWantedSupplied(req, data) ==
    IF req.with_user # None
    THEN Between(data, req.user_id, req.with_user[1])
    ELSE Involves(data, req.user_id)

\* The messages a request asks for when an empty with_user counts as omitted
MessageWanted(req, data) ==
    IF req.with_user # None /\ req.with_user[1] # ""
    THEN Between(data, req.user_id, req.with_user[1])
    ELSE Involves(data, req.user_id)

\* C4 as stated: GET /messages with user_id=A and with_user=B returns only
\* messages between A and B; without with_user, all messages involving A.
C4_PairWheneverSupplied ==
    (resp.op = "get_messages" /\ resp.status = 200)
    => /\ \A k \in 1..Len(resp.body) : MessageWantedSupplied(resp.req, resp.body[k].data)
       /\ Len(store["message"]) <= 200 =>
             \A k \in 1..Len(store["message"]) :
                MessageWantedSupplied(resp.req, store["message"][k].data)
                => InBody(resp, store["message"][k].id, store["message"][k].data)

\* C4 amended: with user_id=A and a non-empty with_user=B the result holds
\* only, and up to the cap all, messages between A and B in either direction;
\* with with_user omitted or empty it holds only, and up to the cap all,
\* messages where A is sender or recipient.
C4_PairWhenNonEmpty ==
    (resp.op = "get_messages" /\ resp.status = 200)
    => /\ \A k \in 1..Len(resp.body) :
             /\ MessageWanted(resp.req, resp.body[k].data)
             /\ Stored("message", resp.body[k])
       /\ Len(store["message"]) <= 200 =>
             \A k \in 1..Len(store["message"]) :
                MessageWanted(resp.req, store["message"][k].data)
                => InBody(resp, store["message"][k].id, store["message"][k].data)

C4_Witness ==
    /\ resp.op = "get_messages"
    /\ resp.status = 200
    /\ resp.req.user_id = "u2"
    /\ resp.req.with_user = Some("u1")
    /\ Len(resp.body) = 1
    /\ resp.body[1].data.sender_id = "u1"
    /\ Len(store["message"]) = 2

Recommendable(d) == d.data.visibility \in {"public", "followers"}

\* C5: every post GET /recommendations returns is public or followers-only,
\* and the result is the first 20 such posts of the store whatever user_id is.
C5_RecommendationsVisibleOnly ==
    (resp.op = "recommendations" /\ resp.status = 200)
    => /\ \A k \in 1..Len(resp.body) :
             resp.body[k].data.visibility \notin {"private", "subscribers"}
       /\ resp.body =
             SubSeq(SelectSeq(store["post"], Recommendable), 1,
                    Min(20, Len(SelectSeq(store["post"], Recommendable))))

C5_Witness ==
    /\ resp.op = "recommendations"
    /\ resp.status = 200
    /\ resp.req.user_id = Some("u1")
    /\ Len(resp.body) = 1
    /\ resp.body[1].data.visibility = "followers"
    /\ Len(store["post"]) = 2
    /\ \E k \in 1..2 : store["post"][k].data.visibility \in {"private", "subscribers"}

\* C6: /test answers 200 with a descriptive body in every store state: the
\* database status says unavailable, connected but error, or connected and
\* working, and at most 20 collection names are listed.
C6_TestNeverFails ==
    resp.op = "test_database"
    => /\ resp.status = 200
       /\ resp.info.backend = "Running"
       /\ resp.info.database =
             (IF ~db.present THEN "Not Available"
              ELSE IF ~db.reachable THEN "Connected but Error"
              ELSE "Connected & Working")
       /\ Len(resp.info.collections) <= 20

C6_Witness ==
    /\ resp.op = "test_database"
    /\ resp.info.database = "Connected & Working"
    /\ Len(resp.info.collections) = 20
    /\ Len(ListCollectionNames) > 20

\* C7: POST /search returns exactly the stored posts in whose text q occurs,
\* letter case ignored, or one of whose tags equals q.
C7_SearchSubstringOrTag ==
    (resp.op = "search" /\ resp.status = 200 /\ Len(store["post"]) <= 50)
    => \A k \in 1..Len(store["post"]) :
          InBody(resp, store["post"][k].id, store["post"][k].data)
          <=> \/ /\ store["post"][k].data.text # None
                 /\ OccursIn(resp.req.q, store["post"][k].data.text[1])
              \/ HasTag(store["post"][k].data, resp.req.q)

\* What the filter of each list request selects
Selected(r, data) ==
    CASE r.op = "list_users" -> TRUE
      [] r.op = "list_posts" -> PostWanted(r.req, data)
      [] r.op = "get_messages" -> MessageWanted(r.req, data)
      [] r.op = "list_notifications" -> data.user_id = r.req.user_id
      [] r.op = "search" -> Matches(data, SearchFilter(r.req.q))
      [] r.op = "recommendations" -> data.visibility \in {"public", "followers"}

C8_WitnessEmpty ==
    /\ resp.op = "list_notifications"
    /\ resp.status = 200
    /\ resp.body = << >>
    /\ store["notification"] # << >>

\* The collection of each create handler's entity: the lowercased entity name
EntityCollection(op) ==
    CASE op = "create_user" -> "user"
      [] op = "create_post" -> "post"
      [] op = "add_comment" -> "comment"
      [] op = "add_like" -> "like"
      [] op = "send_message" -> "message"
      [] op = "create_plan" -> "subscriptionplan"
      [] op = "create_subscription" -> "subscription"
      [] op = "create_payment" -> "payment"
      [] op = "create_notification" -> "notification"
      [] op = "create_stream" -> "stream"
      [] op = "create_audio_room" -> "audioroom"
      [] op = "track" -> "analyticsevent"

\* C9: the store is append-only.  A step changes a collection only when it is
\* a successful create; a successful create appends exactly one document,
\* under the identifier it returns, to the collection of its entity and
\* leaves the other collections unchanged; no stored document is ever
\* changed or removed.
C9_AppendOnly ==
    [][/\ store' # store => (resp'.op \in CreateOps /\ resp'.status = 200)
       /\ resp'.op \in ReadOps => store' = store
       /\ (resp'.op \in CreateOps /\ resp'.status = 200 /\ resp'.id >= nextId)
          => /\ Len(store'[EntityCollection(resp'.op)])
                   = Len(store[EntityCollection(resp'.op)]) + 1
             /\ store'[EntityCollection(resp'.op)]
                   [Len(store'[EntityCollection(resp'.op)])].id = resp'.id
             /\ \A c \in Collections \ {EntityCollection(resp'.op)} :
                   store'[c] = store[c]
       /\ \A c \in Collections :
             /\ Len(store'[c]) >= Len(store[c])
             /\ SubSeq(store'[c], 1, Len(store[c])) = store[c]]_vars

C9_Witness ==
    /\ resp.op = "search"
    /\ resp.status = 200
    /\ store["post"] # << >>
    /\ store["subscriptionplan"] # << >>
\* Documents stored before the run, and documents the run created
InitialDocs(c) == SelectSeq(store[c], LAMBDA d : d.id <= 0)

CreatedDocs(c) == SelectSeq(store[c], LAMBDA d : d.id >= 1)

ConcCollection(i) == IF batch[i].op = "create_post" THEN "post" ELSE "message"

ConcDocument(i) ==
    IF batch[i].op = "create_post" THEN ParsePost(batch[i].body) ELSE batch[i].body

\* The documents the successful requests of the batch create when they are
\* handled one after the other in the order 1, 2, ...
SequentialRun ==
    LET F[k \in 0..NConc] ==
            IF k = 0
            THEN [n |-> 1, docs |-> [c \in {"post", "message"} |-> << >>]]
            ELSE IF pc[k] = "done"
            THEN [n |-> F[k - 1].n + 1,
                  docs |-> [F[k - 1].docs EXCEPT ![ConcCollection(k)] =
                               Append(@, [id |-> F[k - 1].n, data |-> ConcDocument(k)])]]
            ELSE F[k - 1]
    IN  F[NConc].docs

\* The answer to the list request of resp after that sequential run
SequentialList ==
    LET c == ListedCollection(resp.op)
        sel == SelectSeq(InitialDocs(c) \o SequentialRun[c],
                         LAMBDA d : Selected(resp, d.data))
    IN  SubSeq(sel, 1, Min(ClaimedCap(resp.op), Len(sel)))

CountData(s, x) == Cardinality({k \in 1..Len(s) : s[k].data = x})

\* The same documents, whatever their order and their identifiers
SameBag(s, t) ==
    /\ Len(s) = Len(t)
    /\ \A k \in 1..Len(s) : CountData(s, s[k].data) = CountData(t, s[k].data)

DistinctIds ==
    \A i, j \in Requests :
        (i # j /\ pc[i] = "done" /\ pc[j] = "done") => ret[i] # ret[j]

SameContents ==
    /\ \A i \in Requests :
          pc[i] = "done"
          => Stored(ConcCollection(i), [id |-> ret[i], data |-> ConcDocument(i)])
    /\ \A c \in {"post", "message"} : SameBag(CreatedDocs(c), SequentialRun[c])
    /\ \A c \in Collections \ {"post", "message"} : CreatedDocs(c) = << >>

ListedAfterBatch ==
    Served /\ resp.op \in {"list_posts", "get_messages"} /\ resp.status = 200

\* C10 as stated: concurrent creates get distinct identifiers, leave the
\* collections with the documents a sequential run leaves, and a list request
\* issued after them returns the documents it returns after a sequential run.
C10_OrderIndependent ==
    /\ DistinctIds
    /\ Served => SameContents
    /\ ListedAfterBatch => SameBag(resp.body, SequentialList)

\* C10 amended: concurrent creates get distinct identifiers and leave the
\* collections with the documents a sequential run leaves (identifiers and
\* order aside); a list request issued after them returns the documents it
\* returns after a sequential run (identifiers and order aside) when no more
\* documents match it than its cap.
C10_OrderIndependentWithinCap ==
    /\ DistinctIds
    /\ Served => SameContents
    /\ (/\ ListedAfterBatch
        /\ Len(SelectSeq(store[ListedCollection(resp.op)],
                         LAMBDA d : Selected(resp, d.data))) <= ClaimedCap(resp.op))
       => SameBag(resp.body, SequentialList)

C10_Witness ==
    /\ ListedAfterBatch
    /\ resp.op = "list_posts"
    /\ \E i, j \in Requests :
          /\ i < j
          /\ pc[i] = "done"
          /\ pc[j] = "done"
          /\ ret[i] > ret[j]
          /\ batch[i] # batch[j]
          /\ InBody(resp, ret[i], ConcDocument(i))
          /\ InBody(resp, ret[j], ConcDocument(j))

====
